---- MODULE Spec2Model ----
(***************************************************************************)
(* Smartbot Core (src/template/core/main.py): the LinUCB contextual bandit *)
(* behind the /choose, /learn and /explain endpoints, its module-level     *)
(* state (bandit.A, bandit.b, bandit.alpha), the state file                *)
(* bandit_state.json, and the asyncio event loop that runs the handlers.   *)
(*                                                                         *)
(* Numbers.  Python indices are kept: vectors and matrices are functions   *)
(* over 0..n-1.  Context values are the integers 0 and 1 (the ends of the  *)
(* expected range [0,1]).  Rewards and the accumulators b are held in      *)
(* tenths (1.0 is 10), so that -delta_suds / 10.0 stays an integer.        *)
(* Scores are exact: a score is the pair (x, y) of rationals standing for  *)
(* x + sqrt(y), and scores are compared without rounding.  Floating-point  *)
(* rounding, NaN and infinity are outside the model.                       *)
(*                                                                         *)
(* The rationale text (_generate_rationale) is string formatting that      *)
(* reads no state and is left out of the responses.                        *)
(***************************************************************************)
EXTENDS Integers, FiniteSets, Sequences, TLC

(***************************************************************************)
(* Bounds of the model.  The program is configured with 7 arms and 16      *)
(* features (line 180); the model is checked with the first n_actions arms *)
(* and the first n_features features.                                      *)
(***************************************************************************)
n_actions == 2

n_features == 2

MaxUpdates == 2

(***************************************************************************)
(* Program constants.                                                      *)
(***************************************************************************)
TopK == 5

SudsScale == 10

CompletionBonus == 10

CompletionPenalty == -5

RegretPenalty == -10

DefaultAlpha == 1

AllActions == <<"CBA", "ABCD", "VACI", "IFTHENT", "BREATH", "JOURNAL", "URGELOG">>

AllFeatureNames ==
  <<"mood", "stress", "urge_level", "energy", "sleep_quality", "workload",
    "social_support", "time_of_day", "day_of_week", "streak_normalized",
    "streak_momentum", "emotional_volatility", "core_balance",
    "contextual_risk", "recent_tool_effectiveness", "tool_diversity_score">>

Arms == 0 .. (n_actions - 1)

\* bandit.actions, by Python index
actions == [a \in Arms |-> AllActions[a + 1]]

\* bandit.feature_names, by Python index
feature_names == [i \in 0 .. (n_features - 1) |-> AllFeatureNames[i + 1]]

(***************************************************************************)
(* Integer and rational arithmetic.                                        *)
(***************************************************************************)
Abs(n) == IF n < 0 THEN -n ELSE n

Sign(n) == IF n < 0 THEN -1 ELSE IF n = 0 THEN 0 ELSE 1

RECURSIVE GCD(_, _)
GCD(m, n) == IF n = 0 THEN m ELSE GCD(n, m % n)

\* the rational n/d in lowest terms with a positive denominator (d # 0)
Rat(n, d) ==
  LET g == GCD(Abs(n), Abs(d))
      s == IF d < 0 THEN -1 ELSE 1
  IN  [n |-> s * (n \div g), d |-> s * (d \div g)]

RInt(k) == [n |-> k, d |-> 1]

RNeg(p) == [n |-> -p.n, d |-> p.d]

RAdd(p, q) ==
  LET g == GCD(p.d, q.d)
      l == (p.d \div g) * q.d
  IN  Rat(p.n * (l \div p.d) + q.n * (l \div q.d), l)

RSub(p, q) == RAdd(p, RNeg(q))

RMul(p, q) ==
  LET g1 == GCD(Abs(p.n), q.d)
      g2 == GCD(Abs(q.n), p.d)
  IN  Rat((p.n \div g1) * (q.n \div g2), (p.d \div g2) * (q.d \div g1))

\* p / q for q # 0
RDiv(p, q) == RMul(p, Rat(q.d, q.n))

\* the sign of a/b - c/d for b, d > 0, by the continued-fraction expansion
\* (no product is formed, so nothing overflows)
RECURSIVE CmpFrac(_, _, _, _)
CmpFrac(a, b, c, d) ==
  LET qa == a \div b
      qc == c \div d
      ra == a - qa * b
      rc == c - qc * d
  IN  IF qa # qc THEN Sign(qa - qc)
      ELSE IF ra = 0 THEN (IF rc = 0 THEN 0 ELSE -1)
      ELSE IF rc = 0 THEN 1
      ELSE CmpFrac(d, rc, b, ra)

RCmp(p, q) == CmpFrac(p.n, p.d, q.n, q.d)

RLess(p, q) == RCmp(p, q) < 0

(***************************************************************************)
(* Vectors and matrices (numpy arrays of shape (n,) and (n, n)).           *)
(***************************************************************************)
Size(v) == Cardinality(DOMAIN v)

RECURSIVE SumUpTo(_, _)
SumUpTo(v, k) == IF k < 0 THEN 0 ELSE v[k] + SumUpTo(v, k - 1)

Sum(v) == SumUpTo(v, Size(v) - 1)

\* np.identity(n)
identity(n) == [i \in 0 .. (n - 1) |-> [j \in 0 .. (n - 1) |-> IF i = j THEN 1 ELSE 0]]

\* np.zeros(n)
zeros(n) == [i \in 0 .. (n - 1) |-> 0]

\* r * M
scale_matrix(r, M) == [i \in DOMAIN M |-> [j \in DOMAIN M |-> r * M[i][j]]]

\* np.outer(u, u): a Size(u) x Size(u) matrix
outer(u) == [i \in DOMAIN u |-> [j \in DOMAIN u |-> u[i] * u[j]]]

\* numpy's broadcasting rule for an in-place add of an operand of extent m
\* into an array of extent d: the extents are equal, or the operand's is 1
Broadcastable(m, d) == m = d \/ m = 1

\* M += O for a square operand O that broadcasts into M
iadd_matrix(M, O) ==
  [i \in DOMAIN M |-> [j \in DOMAIN M |->
     M[i][j] + (IF Size(O) = 1 THEN O[0][0] ELSE O[i][j])]]

\* v += w for an operand w that broadcasts into v
iadd_vector(v, w) ==
  [i \in DOMAIN v |-> v[i] + (IF Size(w) = 1 THEN w[0] ELSE w[i])]

\* reward * features
scale(r, u) == [i \in DOMAIN u |-> r * u[i]]

Minor(M, r, c) ==
  [i \in 0 .. (Size(M) - 2) |-> [j \in 0 .. (Size(M) - 2) |->
     M[IF i < r THEN i ELSE i + 1][IF j < c THEN j ELSE j + 1]]]

RECURSIVE Det(_)
Det(M) ==
  IF Size(M) = 0 THEN 1
  ELSE IF Size(M) = 1 THEN M[0][0]
  ELSE Sum([j \in DOMAIN M |->
              (IF j % 2 = 0 THEN 1 ELSE -1) * M[0][j] * Det(Minor(M, 0, j))])

\* the adjugate: np.linalg.inv(M) is Adj(M) / Det(M)
Adj(M) ==
  [i \in DOMAIN M |-> [j \in DOMAIN M |->
     (IF (i + j) % 2 = 0 THEN 1 ELSE -1) * Det(Minor(M, j, i))]]

\* M @ v
matvec(M, v) == [i \in DOMAIN M |-> Sum([j \in DOMAIN M |-> M[i][j] * v[j]])]

\* u.T @ v
dot(u, v) == Sum([i \in DOMAIN u |-> u[i] * v[i]])

(***************************************************************************)
(* Scores.  A score is [x, y], standing for x + sqrt(y) with y >= 0: x is  *)
(* the point estimate theta.T @ features and y the square of the           *)
(* confidence bound alpha * sqrt(features.T @ A_inv @ features).           *)
(***************************************************************************)
RewardUnit == SudsScale

\* s1 > s2, exactly: x1 - x2 > sqrt(y2) - sqrt(y1), decided by squaring
\* twice with the signs tracked
ScoreGt(s1, s2) ==
  LET X  == RSub(s1.x, s2.x)
      sX == Sign(X.n)
      sY == RCmp(s2.y, s1.y)
      \* L = y1 + y2 - X^2
      L  == RSub(RAdd(s1.y, s2.y), RMul(X, X))
      zeroProduct == s1.y.n = 0 \/ s2.y.n = 0
      two == RInt(2)
      \* the sign of L^2 - 4 y1 y2 for L > 0 and y1, y2 > 0
      cmpL == RCmp(RDiv(L, RMul(two, s1.y)), RDiv(RMul(two, s2.y), L))
  IN  IF sX >= 0 /\ sY < 0 THEN TRUE
      ELSE IF sX > 0 /\ sY = 0 THEN TRUE
      ELSE IF sX <= 0 /\ sY >= 0 THEN FALSE
      ELSE IF sX > 0
        THEN \* X > sqrt(y2) - sqrt(y1) > 0  iff  2 sqrt(y1 y2) > L
             IF L.n < 0 THEN TRUE
             ELSE IF zeroProduct THEN FALSE
             ELSE IF L.n = 0 THEN TRUE
             ELSE cmpL < 0
        ELSE \* 0 > X > sqrt(y2) - sqrt(y1)  iff  L > 2 sqrt(y1 y2)
             IF L.n <= 0 THEN FALSE
             ELSE IF zeroProduct THEN TRUE
             ELSE cmpL > 0

\* lines 84-92: the UCB value of one arm for a context of the configured length
ucb_value(Aa, ba, alpha_, features) ==
  LET D     == Det(Aa)
      A_adj == Adj(Aa)
      \* theta = A_inv @ b, times D, in tenths
      thetaN == matvec(A_adj, ba)
      Q     == dot(features, matvec(A_adj, features))
  IN  [x |-> Rat(dot(thetaN, features), RewardUnit * D),
       y |-> Rat(alpha_ * alpha_ * Q, D)]

\* Faulty variant of the scan: a later arm replaces the best on an equal score.
RECURSIVE argmax_scan_last(_, _, _)
argmax_scan_last(v, k, best) ==
  IF k >= Size(v) THEN best
  ELSE argmax_scan_last(v, k + 1, IF ~ScoreGt(v[best], v[k]) THEN k ELSE best)

\* np.argmax (line 96): a left-to-right scan that keeps the first maximum
RECURSIVE argmax_scan(_, _, _)
argmax_scan(v, k, best) ==
  IF k >= Size(v) THEN best
  ELSE argmax_scan(v, k + 1, IF ScoreGt(v[k], v[best]) THEN k ELSE best)

argmax(v) == argmax_scan(v, 1, 0)

\* LinUCBBandit.choose_action (lines 76-102).  np.linalg.inv raises on a
\* singular matrix (line 85) and the product features.T @ A_inv @ features
\* raises on a context of another length (line 89).
bandit_choose_action(A_, b_, alpha_, features) ==
  IF \E a \in Arms : Det(A_[a]) = 0
    THEN [ok |-> FALSE, error |-> "LinAlgError"]
  ELSE IF Size(features) # n_features
    THEN [ok |-> FALSE, error |-> "ValueError"]
  ELSE LET ucb_values == [a \in Arms |-> ucb_value(A_[a], b_[a], alpha_, features)]
           best_action == argmax(ucb_values)
       IN  [ok |-> TRUE, error |-> "", ucb_values |-> ucb_values,
            best_action |-> best_action, confidence |-> ucb_values[best_action]]

\* Faulty variant of line 106: the outer product is subtracted.
update_A_subtract(Aa, features) ==
  IF Broadcastable(Size(features), Size(Aa))
    THEN [ok |-> TRUE, val |-> iadd_matrix(Aa, scale_matrix(-1, outer(features)))]
    ELSE [ok |-> FALSE, val |-> Aa]

\* LinUCBBandit.update, line 106: self.A[action] += np.outer(features, features)
update_A(Aa, features) ==
  IF Broadcastable(Size(features), Size(Aa))
    THEN [ok |-> TRUE, val |-> iadd_matrix(Aa, outer(features))]
    ELSE [ok |-> FALSE, val |-> Aa]

\* Faulty variant of line 107: the reward-weighted context is subtracted.
update_b_negated(ba, features, reward) ==
  IF Broadcastable(Size(features), Size(ba))
    THEN [ok |-> TRUE, val |-> iadd_vector(ba, scale(-reward, features))]
    ELSE [ok |-> FALSE, val |-> ba]

\* LinUCBBandit.update, line 107: self.b[action] += reward * features
update_b(ba, features, reward) ==
  IF Broadcastable(Size(features), Size(ba))
    THEN [ok |-> TRUE, val |-> iadd_vector(ba, scale(reward, features))]
    ELSE [ok |-> FALSE, val |-> ba]

\* LinUCBBandit.get_feature_importance (lines 163-176): |theta| divided by
\* its maximum when that is positive, by feature index
get_feature_importance(A_, b_, action) ==
  LET thetaN == matvec(Adj(A_[action]), b_[action])
      mags   == [i \in DOMAIN thetaN |-> Abs(thetaN[i])]
      top    == CHOOSE m \in {mags[i] : i \in DOMAIN mags} :
                  \A i \in DOMAIN mags : mags[i] <= m
  IN  [i \in DOMAIN mags |-> IF top > 0 THEN Rat(mags[i], top) ELSE RInt(0)]

\* sorted(feature_importance.items(), key=lambda x: x[1], reverse=True)
\* (line 325): the feature index at each rank; the sort is stable, so equal
\* importances keep the order of feature_names
sorted_by_importance(imp) ==
  LET rank(i) == Cardinality({j \in DOMAIN imp : RLess(imp[i], imp[j])})
                 + Cardinality({j \in DOMAIN imp : j < i /\ imp[j] = imp[i]})
  IN  [r \in DOMAIN imp |-> CHOOSE i \in DOMAIN imp : rank(i) = r]

\* lines 331-334: the entries of top_contributing_features, by rank
top_contributing_features(imp, features) ==
  LET order == sorted_by_importance(imp)
      kept  == {i \in DOMAIN order : i < TopK /\ i < Size(features)}
  IN  [i \in kept |-> [feature |-> feature_names[order[i]],
                       importance |-> imp[order[i]],
                       value |-> features[i]]]

\* determine_ui_mode (lines 209-231); thresholds in tenths
determine_ui_mode(features) ==
  IF Size(features) < 3 THEN "Growth"
  ELSE IF features[1] * 10 > 7 \/ features[2] * 10 > 7 THEN "Crisis"
  ELSE IF features[1] * 10 < 3 /\ features[2] * 10 < 3 THEN "Flow"
  ELSE "Growth"

(***************************************************************************)
(* Persistence.  The file holds JSON: arrays are sequences (from 1).       *)
(***************************************************************************)
AllKeys == {"A", "b", "alpha"}

\* ndarray.tolist() of a vector and of a matrix
tolist_vector(v) == [i \in 1 .. Size(v) |-> v[i - 1]]

tolist_matrix(M) == [i \in 1 .. Size(M) |-> tolist_vector(M[i - 1])]

\* np.array of a JSON array of numbers, and of an array of such arrays
np_array_vector(l) == [i \in 0 .. (Len(l) - 1) |-> l[i + 1]]

np_array_matrix(l) == [i \in 0 .. (Len(l) - 1) |-> np_array_vector(l[i + 1])]

\* the Python list built by [np.array(x) for x in json_list], by index
list_of_matrices(l) == [a \in 0 .. (Len(l) - 1) |-> np_array_matrix(l[a + 1])]

list_of_vectors(l) == [a \in 0 .. (Len(l) - 1) |-> np_array_vector(l[a + 1])]

\* Faulty variant of the save: the accumulators are written as zeros.
save_bandit_state_zero_b(A_, b_, alpha_) ==
  [exists |-> TRUE, parses |-> TRUE, keys |-> AllKeys,
   A |-> [a \in 1 .. n_actions |-> tolist_matrix(A_[a - 1])],
   b |-> [a \in 1 .. n_actions |-> tolist_vector(zeros(Size(b_[a - 1])))],
   alpha |-> alpha_]

\* save_bandit_state (lines 182-190): the file after the write
save_bandit_state(A_, b_, alpha_) ==
  [exists |-> TRUE, parses |-> TRUE, keys |-> AllKeys,
   A |-> [a \in 1 .. n_actions |-> tolist_matrix(A_[a - 1])],
   b |-> [a \in 1 .. n_actions |-> tolist_vector(b_[a - 1])],
   alpha |-> alpha_]

\* LinUCBBandit.__init__ (lines 55-62)
FreshA == [a \in Arms |-> identity(n_features)]

Freshb == [a \in Arms |-> zeros(n_features)]

(***************************************************************************)
(* Inputs.                                                                 *)
(***************************************************************************)
FeatureValues == {0, 1}

ContextsOfLength(m) == [0 .. (m - 1) -> FeatureValues]

\* request.features: every context of the configured length, and contexts
\* of length 0, 1 and n_features + 1
Contexts ==
  ContextsOfLength(n_features) \cup ContextsOfLength(0) \cup ContextsOfLength(1)
    \cup {[i \in 0 .. n_features |-> 1]}

\* request.action: the configured arms and a name that is none of them
ActionNames == {actions[a] : a \in Arms} \cup {"UNKNOWN"}

\* (delta_suds, completed, regret) of a LearnRequest; regret is Optional[bool]
Feedbacks ==
  { [delta_suds |-> 0,  completed |-> TRUE,  regret |-> "None"],
    [delta_suds |-> 5,  completed |-> FALSE, regret |-> "true"],
    [delta_suds |-> -5, completed |-> TRUE,  regret |-> "false"] }

NoFile == [exists |-> FALSE, parses |-> FALSE, keys |-> {}, A |-> <<>>, b |-> <<>>, alpha |-> 0]

UnitContext == [i \in 0 .. (n_features - 1) |-> IF i = 0 THEN 1 ELSE 0]

\* a state as an earlier run leaves it (arm 0 updated once with UnitContext
\* and reward 1.0), with the exploration coefficient edited to 2
SampleState ==
  save_bandit_state([FreshA EXCEPT ![0] = iadd_matrix(@, outer(UnitContext))],
                    [Freshb EXCEPT ![0] = scale(CompletionBonus, UnitContext)],
                    2)

FileWithKeys(K) ==
  [exists |-> TRUE, parses |-> TRUE, keys |-> K,
   A |-> IF "A" \in K THEN SampleState.A ELSE <<>>,
   b |-> IF "b" \in K THEN SampleState.b ELSE <<>>,
   alpha |-> IF "alpha" \in K THEN SampleState.alpha ELSE 0]

\* bandit_state.json at process start: absent, not JSON, or a JSON object
\* holding some of the keys
FileInputs ==
  { NoFile,
    [NoFile EXCEPT !.exists = TRUE],
    FileWithKeys({"A"}), FileWithKeys({"A", "b"}), FileWithKeys({"b", "alpha"}),
    FileWithKeys(AllKeys) }

(***************************************************************************)
(* State.                                                                  *)
(***************************************************************************)
VARIABLES
  A,            \* bandit.A: per arm, the matrix
  b,            \* bandit.b: per arm, the accumulator (tenths)
  alpha,        \* bandit.alpha
  file,         \* bandit_state.json
  pc,           \* the event loop: "startup", "idle", "learn_mid", "done"
  request,      \* the request being handled
  response,     \* what the handler returned or raised
  load_result,  \* how load_bandit_state ended
  boot,         \* history: the engine state when startup finished
  pre,          \* history: the engine state and the file when the request began
  hist,         \* history: per arm, the contexts of the updates applied to it
  run           \* history: the current run of identical updates and the arm's
                \* statistics before it

vars == <<A, b, alpha, file, pc, request, response, load_result, boot, pre, hist, run>>

NoRequest == [kind |-> "none"]

NoResponse == [status |-> "none"]

NoPre == [A |-> FreshA, b |-> Freshb, alpha |-> DefaultAlpha, file |-> NoFile]

NoRun == [k |-> 0, action |-> 0, features |-> zeros(0), reward |-> 0,
          A0 |-> identity(n_features), b0 |-> zeros(n_features)]

Snapshot == [A |-> A, b |-> b, alpha |-> alpha, file |-> file]

NUpdates == Sum([a \in Arms |-> Len(hist[a])])

\* lines 55-62 and 178-180: the module-level bandit, before load_bandit_state
Init ==
  /\ A = FreshA
  /\ b = Freshb
  /\ alpha = DefaultAlpha
  /\ file \in FileInputs
  /\ pc = "startup"
  /\ request = NoRequest
  /\ response = NoResponse
  /\ load_result = "pending"
  /\ boot = [A |-> FreshA, b |-> Freshb, alpha |-> DefaultAlpha]
  /\ pre = NoPre
  /\ hist = [a \in Arms |-> <<>>]
  /\ run = NoRun

\* load_bandit_state (lines 192-204): the assignments of lines 200-202 in
\* order; a missing key raises KeyError at its line, and the except clause
\* only prints
loaded_state(A_, b_, alpha_, f) ==
  IF ~f.exists THEN [A |-> A_, b |-> b_, alpha |-> alpha_, result |-> "no_file"]
  ELSE IF ~f.parses THEN [A |-> A_, b |-> b_, alpha |-> alpha_, result |-> "error"]
  ELSE IF "A" \notin f.keys THEN [A |-> A_, b |-> b_, alpha |-> alpha_, result |-> "error"]
  ELSE IF "b" \notin f.keys
    THEN [A |-> list_of_matrices(f.A), b |-> b_, alpha |-> alpha_, result |-> "error"]
  ELSE IF "alpha" \notin f.keys
    THEN [A |-> list_of_matrices(f.A), b |-> list_of_vectors(f.b), alpha |-> alpha_,
          result |-> "error"]
  ELSE [A |-> list_of_matrices(f.A), b |-> list_of_vectors(f.b), alpha |-> f.alpha,
        result |-> "ok"]

\* line 207: load state on startup; then the server starts its event loop
load_bandit_state ==
  /\ pc = "startup"
  /\ LET l == loaded_state(A, b, alpha, file)
     IN  /\ A' = l.A
         /\ b' = l.b
         /\ alpha' = l.alpha
         /\ load_result' = l.result
         /\ boot' = [A |-> l.A, b |-> l.b, alpha |-> l.alpha]
  /\ pc' = "idle"
  /\ UNCHANGED <<file, request, response, pre, hist, run>>

\* Faulty variant of the scheduling: a handler may start while an update is
\* between its two increments (handlers run on threads).
CanStartPreempting == pc \in {"idle", "learn_mid"}

\* The handlers are coroutines (async def, lines 239, 261, 310) with no await
\* in their bodies: the event loop runs one to its end before it starts the
\* next.
CanStart == pc = "idle"

\* between line 106 and line 107 of an update: the arm's matrix is
\* incremented, its accumulator not yet
MidUpdate == pc = "learn_mid"

\* POST /choose (lines 238-258)
choose_action(features) ==
  /\ CanStart
  /\ LET r == bandit_choose_action(A, b, alpha, features)
     IN  response' =
           IF r.ok
             THEN [status |-> "ok", action |-> actions[r.best_action],
                   action_idx |-> r.best_action,
                   ui_mode |-> determine_ui_mode(features),
                   confidence |-> r.confidence, ucb_values |-> r.ucb_values,
                   read_mid_update |-> MidUpdate]
             ELSE [status |-> "error", error |-> r.error, read_mid_update |-> MidUpdate]
  /\ request' = [kind |-> "choose", features |-> features]
  /\ pre' = Snapshot
  /\ pc' = "done"
  /\ UNCHANGED <<A, b, alpha, file, load_result, boot, hist, run>>

\* lines 336-342, thresholds in tenths
decision_factors(features) ==
  [high_stress |-> IF Size(features) > 1 THEN features[1] * 10 > 7 ELSE FALSE,
   high_urges |-> IF Size(features) > 2 THEN features[2] * 10 > 6 ELSE FALSE,
   low_mood |-> IF Size(features) > 0 THEN features[0] * 10 < 4 ELSE FALSE,
   emotional_instability |-> IF Size(features) > 11 THEN features[11] * 10 > 6 ELSE FALSE,
   high_risk_context |-> IF Size(features) > 13 THEN features[13] * 10 > 6 ELSE FALSE]

\* POST /explain (lines 309-343)
explain_recommendation(features) ==
  /\ CanStart
  /\ LET r == bandit_choose_action(A, b, alpha, features)
         feature_importance == get_feature_importance(A, b, r.best_action)
     IN  response' =
           IF r.ok
             THEN [status |-> "ok", recommended_action |-> actions[r.best_action],
                   action_idx |-> r.best_action,
                   confidence |-> r.confidence, ucb_values |-> r.ucb_values,
                   feature_importance |-> feature_importance,
                   top_contributing_features |->
                     top_contributing_features(feature_importance, features),
                   feature_values |->
                     [i \in DOMAIN feature_names \cap DOMAIN features |-> features[i]],
                   decision_factors |-> decision_factors(features),
                   read_mid_update |-> MidUpdate]
             ELSE [status |-> "error", error |-> r.error, read_mid_update |-> MidUpdate]
  /\ request' = [kind |-> "explain", features |-> features]
  /\ pre' = Snapshot
  /\ pc' = "done"
  /\ UNCHANGED <<A, b, alpha, file, load_result, boot, hist, run>>

(***************************************************************************)
(* POST /learn (lines 260-296).                                            *)
(***************************************************************************)
\* Faulty variant of the lookup: a missing name yields index -1, which Python
\* reads as the last arm.
action_index_last(name) ==
  IF \E a \in Arms : actions[a] = name
    THEN [found |-> TRUE, idx |-> CHOOSE a \in Arms : actions[a] = name]
    ELSE [found |-> TRUE, idx |-> n_actions - 1]

\* bandit.actions.index(name) (line 267): the first index holding the name;
\* list.index raises ValueError when there is none (found is FALSE)
action_index(name) ==
  IF \E a \in Arms : actions[a] = name
    THEN [found |-> TRUE, idx |-> CHOOSE a \in Arms :
                                    actions[a] = name /\ \A c \in Arms : actions[c] = name => a <= c]
    ELSE [found |-> FALSE, idx |-> 0]

\* line 271, in tenths
suds_reward(req) == ((-req.delta_suds) * RewardUnit) \div SudsScale

\* line 274
completion_reward(req) == IF req.completed THEN CompletionBonus ELSE CompletionPenalty

\* Faulty variant of line 277: any regret that is not None is penalised.
regret_penalty_not_none(req) == IF req.regret # "None" THEN RegretPenalty ELSE 0

\* line 277: None and False are falsy
regret_penalty(req) == IF req.regret = "true" THEN RegretPenalty ELSE 0

\* line 280
total_reward(req) == suds_reward(req) + completion_reward(req) + regret_penalty(req)

\* lines 266-283 up to and including line 106 of LinUCBBandit.update
learn_begin(features, action, fb) ==
  /\ CanStart
  /\ NUpdates < MaxUpdates
  /\ LET req == [kind |-> "learn", features |-> features, action |-> action,
                 delta_suds |-> fb.delta_suds, completed |-> fb.completed,
                 regret |-> fb.regret]
         look == action_index(action)
         stepA == update_A(A[look.idx], features)
     IN  /\ request' = req
         /\ pre' = Snapshot
         /\ IF ~look.found
              THEN /\ response' = [status |-> "error", error |-> "ValueError: not in list"]
                   /\ pc' = "done"
                   /\ A' = A
            ELSE IF ~stepA.ok
              THEN /\ response' = [status |-> "error", error |-> "ValueError: broadcast"]
                   /\ pc' = "done"
                   /\ A' = A
            ELSE /\ response' = NoResponse
                 /\ pc' = "learn_mid"
                 /\ A' = [A EXCEPT ![look.idx] = stepA.val]
  /\ UNCHANGED <<b, alpha, file, load_result, boot, hist, run>>

\* the rest of the handler: line 107 of LinUCBBandit.update, the save of
\* line 286 and the return of lines 288-296
learn_finish ==
  /\ pc = "learn_mid"
  /\ LET idx == action_index(request.action).idx
         reward == total_reward(request)
         stepB == update_b(b[idx], request.features, reward)
         newb == [b EXCEPT ![idx] = stepB.val]
         same == /\ run.k > 0
                 /\ run.action = idx
                 /\ run.features = request.features
                 /\ run.reward = reward
     IN  IF ~stepB.ok
           THEN /\ response' = [status |-> "error", error |-> "ValueError: broadcast"]
                /\ UNCHANGED <<b, file, hist, run>>
           ELSE /\ b' = newb
                /\ file' = save_bandit_state(A, newb, alpha)
                /\ response' =
                     [status |-> "ok", message |-> "Feedback received",
                      reward_breakdown |->
                        [suds_reward |-> suds_reward(request),
                         completion_reward |-> completion_reward(request),
                         regret_penalty |-> regret_penalty(request),
                         total_reward |-> reward]]
                /\ hist' = [hist EXCEPT ![idx] = Append(@, request.features)]
                /\ run' = IF same THEN [run EXCEPT !.k = @ + 1]
                          ELSE [k |-> 1, action |-> idx, features |-> request.features,
                                reward |-> reward, A0 |-> pre.A[idx], b0 |-> pre.b[idx]]
  /\ pc' = "done"
  /\ UNCHANGED <<A, alpha, request, load_result, boot, pre>>

\* the handler has returned (or raised): the event loop takes the next request
return ==
  /\ pc = "done"
  /\ pc' = "idle"
  /\ request' = NoRequest
  /\ response' = NoResponse
  /\ pre' = NoPre
  /\ UNCHANGED <<A, b, alpha, file, load_result, boot, hist, run>>

Next ==
  \/ load_bandit_state
  \/ \E features \in Contexts : choose_action(features)
  \/ \E features \in Contexts : explain_recommendation(features)
  \/ \E features \in Contexts, action \in ActionNames, fb \in Feedbacks :
       learn_begin(features, action, fb)
  \/ learn_finish
  \/ return

Spec == Init /\ [][Next]_vars

(***************************************************************************)
(* Properties.                                                             *)
(***************************************************************************)
KnownAction(name) == \E a \in Arms : actions[a] = name

Symmetric(M) == \A i \in DOMAIN M : \A j \in DOMAIN M : M[i][j] = M[j][i]

\* Sylvester's criterion: every leading principal minor is positive
LeadingBlock(M, k) == [i \in 0 .. (k - 1) |-> [j \in 0 .. (k - 1) |-> M[i][j]]]

PositiveDefinite(M) == \A k \in 1 .. Size(M) : Det(LeadingBlock(M, k)) > 0

\* entry i of a context as numpy reads it in an array of the configured
\* length: a context of length 1 stands for the constant vector
Entry(c, i) == IF Size(c) = 1 THEN c[0] ELSE c[i]

RECURSIVE OuterSumEntry(_, _, _)
OuterSumEntry(h, i, j) ==
  IF h = <<>> THEN 0
  ELSE Entry(Head(h), i) * Entry(Head(h), j) + OuterSumEntry(Tail(h), i, j)

IdentityPlusOuterProducts(h) ==
  [i \in 0 .. (n_features - 1) |-> [j \in 0 .. (n_features - 1) |->
     (IF i = j THEN 1 ELSE 0) + OuterSumEntry(h, i, j)]]

\* C1: a Learn request whose context length differs from the configured
\* feature dimension is rejected with an error and changes no arm's matrix
\* or accumulator, at any point of its handling.
C1_MismatchedLengthRejected ==
  (request.kind = "learn" /\ Size(request.features) # n_features)
    => /\ A = pre.A
       /\ b = pre.b
       /\ pc = "done"
       /\ response.status = "error"

\* C2: when load_bandit_state fails, the engine state it leaves is the fresh
\* initial state: identity matrices, zero accumulators, alpha 1.0.
C2_LoadAllOrNothing ==
  load_result = "error"
    => /\ boot.A = FreshA
       /\ boot.b = Freshb
       /\ boot.alpha = DefaultAlpha

\* C3: no selection (in Decide or Explain) reads the engine while an update
\* has incremented an arm's matrix and not yet its accumulator.
C3_NoSelectionReadsMidUpdate ==
  request.kind \in {"choose", "explain"} => ~response.read_mid_update

\* C3 witness: a selection answered after an update went through its
\* mid-update point.
C3_SelectionAfterUpdate ==
  /\ request.kind = "choose"
  /\ response.status = "ok"
  /\ NUpdates >= 1

\* what a restart would load from the file is the engine state in memory
PersistedEqualsMemory ==
  loaded_state(FreshA, Freshb, DefaultAlpha, file)
    = [A |-> A, b |-> b, alpha |-> alpha, result |-> "ok"]

C5_UnknownArmRejected ==
  (request.kind = "learn" /\ ~KnownAction(request.action))
    => /\ pc = "done"
       /\ response.status = "error"
       /\ response.error = "ValueError: not in list"
       /\ A = pre.A
       /\ b = pre.b
       /\ alpha = pre.alpha
       /\ file = pre.file

\* C5 witness: an unknown arm was named, with a context of the configured
\* length, on an engine that has already learned.
C5_UnknownArmNamed ==
  /\ request.kind = "learn"
  /\ request.action = "UNKNOWN"
  /\ Size(request.features) = n_features
  /\ NUpdates >= 1
  /\ response.status = "error"

\* C6: every arm's matrix is symmetric and positive-definite; between
\* updates, on an engine started fresh, it is the identity plus the sum of
\* the outer products of the contexts that arm was updated with.
C6_SymmetricPositiveDefinite ==
  \A a \in Arms :
    /\ Symmetric(A[a])
    /\ PositiveDefinite(A[a])
    /\ (boot.A = FreshA /\ pc # "learn_mid")
         => A[a] = IdentityPlusOuterProducts(hist[a])

\* C6 witness: an arm updated twice from the fresh state, with a matrix that
\* is no longer diagonal.
C6_ArmUpdatedTwice ==
  /\ boot.A = FreshA
  /\ pc = "done"
  /\ \E a \in Arms : Len(hist[a]) >= 2 /\ A[a][0][1] # 0

\* the score of an arm with statistics (Aa, ba) for a context
ArmScore(Aa, ba, features) == ucb_value(Aa, ba, alpha, features)

ScoreEq(s1, s2) == ~ScoreGt(s1, s2) /\ ~ScoreGt(s2, s1)

UntouchedEngine == A = FreshA /\ b = Freshb

\* C7: the arm a selection returns has a score no other arm exceeds and
\* strictly above that of every arm before it; on an untouched engine it is
\* arm 0.
C7_ArgmaxLowestIndex ==
  (request.kind \in {"choose", "explain"} /\ response.status = "ok")
    => LET v == [a \in Arms |-> ArmScore(A[a], b[a], request.features)]
           k == response.action_idx
       IN  /\ response.confidence = v[k]
           /\ \A a \in Arms : ~ScoreGt(v[a], v[k])
           /\ \A a \in Arms : a < k => ScoreGt(v[k], v[a])
           /\ UntouchedEngine => k = 0

\* C7 witness: after learning, two arms tie for the maximal score and the
\* selection returns the first of them.
C7_TieAfterLearning ==
  /\ request.kind = "choose"
  /\ response.status = "ok"
  /\ NUpdates >= 1
  /\ ~UntouchedEngine
  /\ \E a \in Arms :
       /\ a > response.action_idx
       /\ ScoreEq(response.ucb_values[a], response.confidence)

FeatureIndex(name) == CHOOSE i \in DOMAIN feature_names : feature_names[i] = name

\* C8: the top contributing features of an Explain response are the (up to
\* 5) features of highest importance for the chosen arm, and each entry's
\* value is the context value at that feature's own position.
C8_TopFeatureValues ==
  (request.kind = "explain" /\ response.status = "ok")
    => LET top == response.top_contributing_features
           imp == response.feature_importance
           named == {FeatureIndex(top[r].feature) : r \in DOMAIN top}
       IN  /\ Cardinality(named) = IF n_features < TopK THEN n_features ELSE TopK
           /\ \A i \in named : \A j \in DOMAIN imp \ named : ~RLess(imp[i], imp[j])
           /\ \A r \in DOMAIN top :
                /\ top[r].importance = imp[FeatureIndex(top[r].feature)]
                /\ top[r].value = request.features[FeatureIndex(top[r].feature)]

\* a run of updates of one arm with one context and one reward is complete
RunOfUpdates ==
  /\ run.k >= 1
  /\ pc # "learn_mid"
  /\ Size(run.features) = n_features

ScoreAfterRun == ArmScore(A[run.action], b[run.action], run.features)

ScoreBeforeRun == ArmScore(run.A0, run.b0, run.features)

\* C9, as stated: after a run of updates of an arm with a (non-zero) context
\* c and reward r, the arm's score for c is strictly above its score before
\* the run.
C9_UpdateIncreasesScore ==
  (RunOfUpdates /\ run.features # zeros(n_features))
    => ScoreGt(ScoreAfterRun, ScoreBeforeRun)

\* the reward r is at least the score the arm had for c before the run
RewardAtLeastScoreBefore ==
  ~ScoreGt(ScoreBeforeRun, [x |-> Rat(run.reward, RewardUnit), y |-> RInt(0)])

\* C9, amended: when c is not the zero vector and r is at least the arm's
\* score for c before the run, the arm's score for c after the run is
\* strictly above its score before the run.
C9_UpdateIncreasesScoreForHighReward ==
  (/\ RunOfUpdates
   /\ run.features # zeros(n_features)
   /\ RewardAtLeastScoreBefore)
    => ScoreGt(ScoreAfterRun, ScoreBeforeRun)

\* C9 witness: a run of two updates whose reward was at least the score
\* before the run.
C9_RepeatedHighReward ==
  /\ RunOfUpdates
  /\ run.k >= 2
  /\ run.features # zeros(n_features)
  /\ RewardAtLeastScoreBefore
  /\ ScoreGt(ScoreAfterRun, ScoreBeforeRun)

\* C10: the reward of a Learn is the unclamped sum of -delta_suds/10, +1.0
\* or -0.5 for completion, and -1.0 only for a flagged regret (tenths here);
\* the two worked examples give (0, 1.0, 0), 1.0 and (-0.5, -0.5, -1.0),
\* -2.0; and the reported total is what the update added to the accumulator.
C10_RewardShaping ==
  (request.kind = "learn" /\ response.status = "ok")
    => LET rb == response.reward_breakdown
           arm == CHOOSE a \in Arms : actions[a] = request.action
           parts == <<rb.suds_reward, rb.completion_reward, rb.regret_penalty,
                      rb.total_reward>>
       IN  /\ rb.suds_reward = -request.delta_suds
           /\ rb.completion_reward = IF request.completed THEN 10 ELSE -5
           /\ rb.regret_penalty = IF request.regret = "true" THEN -10 ELSE 0
           /\ rb.total_reward
                = rb.suds_reward + rb.completion_reward + rb.regret_penalty
           /\ (request.delta_suds = 0 /\ request.completed /\ request.regret = "None")
                => parts = <<0, 10, 0, 10>>
           /\ (request.delta_suds = 5 /\ ~request.completed /\ request.regret = "true")
                => parts = <<-5, -5, -10, -20>>
           /\ \A i \in DOMAIN b[arm] :
                b[arm][i] = pre.b[arm][i] + rb.total_reward * Entry(request.features, i)

\* C10 witness: the second worked example, applied to an arm.
C10_SecondExample ==
  /\ request.kind = "learn"
  /\ response.status = "ok"
  /\ request.delta_suds = 5
  /\ ~request.completed
  /\ request.regret = "true"
  /\ Size(request.features) = n_features
  /\ request.features # zeros(n_features)
  /\ response.reward_breakdown.total_reward = -20

====
